---- MODULE Spec2Model ----
(***************************************************************************)
(* A model of plink's command line program (process_cli), its store        *)
(* (database), its spectrogram generator (process) and its commands: the   *)
(* two that run concurrent tokio tasks, discover (discover_song) and       *)
(* upload-bulk (upload_bulk), and upload (upload_song).                    *)
(*                                                                         *)
(* One tokio task is one process of the model; a task takes one step per   *)
(* await point of its body.  The store is the pair (songs, segments).      *)
(***************************************************************************)
EXTENDS Integers, Sequences, FiniteSets

(***************************************************************************)
(* Bounds of the model.                                                    *)
(***************************************************************************)
MaxFrames == 2
MaxConcurrency == 2
MaxResultsPer == 2
MaxMatches == 2
MaxEntries == 2
MaxUploads == 2
MaxSamples == 3
MaxFftLen == 2
MaxCallers == 3

VARIABLES
    command,            \* the subcommand picked by Command::parse()
    max_concurrency,    \* --max-concurrency
    songs,              \* table songs: songs[id] is the row with that id
    segments,           \* table segments: a set of rows
    semaphore,          \* permits available in the tokio Semaphore
    mainpc,             \* where the command's own task is
    index,              \* entries/frames the spawning loop has consumed
    pc,                 \* pc[t]: where spawned task t is
    guard,              \* guard[t]: task t owns a SemaphorePermit (_guard)
    spectrogram,        \* discover: the query's frames
    max_distance,       \* discover: --max-distance
    results_per_query,  \* discover: --results-per
    n_matches,          \* discover: --n-matches, once it has been read
    senders,            \* discover: live UnboundedSender handles
    channel,            \* discover: messages sent and not yet received
    result,             \* discover: result[t], the rows task t's query returned
    received,           \* discover: the tasks whose message recv() returned, in order
    hashmap,            \* discover: song_id -> score
    top,                \* discover: the sorted (song_id, score) pairs
    entries,            \* discover: DiscoverResult.entries
    directory,          \* upload-bulk: the entries read_dir yields
    run,                \* upload-bulk: which run over the directory this is
    handles,            \* upload-bulk: the JoinHandles pushed, as task ids
    ok,                 \* upload-bulk: join results that are Ok
    err,                \* upload-bulk: join results that are Err
    already_saved,      \* upload-bulk: already_saved[t], task t's exists-check
    song_ids,           \* upload-bulk: song_ids[t], the song_id insert_new_song got
    snapshot,           \* upload-bulk: the store as the previous run left it
    uploads,            \* upload: how many times the command has been run
    file,               \* upload: the path argument
    samplerate,         \* upload: the samplerate insert_new_song is given
    config,             \* upload: the SpectrogramConfig in use
    samples,            \* upload: the length of the resampled first channel
    new_song,           \* upload: the id insert_new_song got back
    copy_in,            \* upload: the rows sent on the open COPY
    duration,           \* upload: what get_song_duration_ms last returned
    planner,            \* run: the caller that holds the planner Mutex, or 0
    haans,              \* run: the HashMap behind the RwLock, size -> window
    readers,            \* run: the callers that hold a read guard of haans
    writer,             \* run: the caller that holds the write guard, or 0
    lens,               \* run: lens[c], the config.fft_len of caller c
    hann,               \* run: hann[c], the window get_hann returned to c
    generated           \* run: generated[n], the calls of generate_hann(n) so far

dvars == <<spectrogram, max_distance, results_per_query, n_matches, senders,
           channel, result, received, hashmap, top, entries>>
bvars == <<directory, run, handles, ok, err, already_saved, song_ids, snapshot>>
uvars == <<uploads, file, samplerate, config, samples, new_song, copy_in, duration>>
gvars == <<planner, haans, readers, writer, lens, hann, generated>>
store == <<songs, segments>>
vars == <<command, max_concurrency, songs, segments, semaphore, mainpc, index,
          pc, guard, dvars, bvars, uvars, gvars>>

(***************************************************************************)
(* Generic helpers.                                                        *)
(***************************************************************************)
Min(a, b) == IF a <= b THEN a ELSE b

Reverse(s) == [k \in 1..Len(s) |-> s[Len(s) + 1 - k]]

Range(s) == {s[k] : k \in 1..Len(s)}

\* every sequence that lists each element of S exactly once
Orderings(S) ==
    {s \in [1..Cardinality(S) -> S] : \A x \in S : \E k \in DOMAIN s : s[k] = x}

(***************************************************************************)
(* The store's data.  A vec is a point with integer coordinates; the L2    *)
(* distance is kept squared, which orders and compares as the distance     *)
(* does.                                                                   *)
(***************************************************************************)
\* the values of --max-distance the model runs discover with
Distances == {0, 1, 2}

Dist2(a, b) ==
    (a[1] - b[1]) * (a[1] - b[1]) + (a[2] - b[2]) * (a[2] - b[2])

SegmentRow(song_id, segment_index, vec) ==
    [song_id |-> song_id, segment_index |-> segment_index, vec |-> vec]

SongRow(local_path) == [local_path |-> local_path]

\* the rows of one song's spectrogram
SegmentRows(song_id, spect) ==
    {SegmentRow(song_id, k - 1, spect[k]) : k \in 1..Len(spect)}


(***************************************************************************)
(* The constants of process_cli, and the state of the upload command in    *)
(* a run of another command.                                               *)
(***************************************************************************)
TARGET_SAMPLERATE_HZ == 30000

SPECTROGRAM_CONFIG == [fft_len |-> 1280, overlap |-> 320]

\* nothing was asked of get_song_duration_ms yet
NoDuration == [song_id |-> 0, ok |-> FALSE, ms |-> 0]

NoUpload ==
    /\ uploads = 0
    /\ file = ""
    /\ samplerate = TARGET_SAMPLERATE_HZ
    /\ config = SPECTROGRAM_CONFIG
    /\ samples = 0
    /\ new_song = 0
    /\ copy_in = <<>>
    /\ duration = NoDuration

\* no SpectrogramGenerator is shared between callers
NoGenerator ==
    /\ planner = 0
    /\ haans = <<>>
    /\ readers = {}
    /\ writer = 0
    /\ lens = <<>>
    /\ hann = <<>>
    /\ generated = <<>>

(***************************************************************************)
(* f64 arithmetic, as far as the timestamps need it.  A number is held as  *)
(* its binary digits, most significant first: in groups of ten (a limb, a  *)
(* number below 1024) where digits are computed, one by one where they     *)
(* are rounded.                                                            *)
(***************************************************************************)
\* 2^k for k in 0..9
Pow2(k) == <<1, 2, 4, 8, 16, 32, 64, 128, 256, 512>>[k + 1]

\* the binary digits of a sequence of limbs
LimbBits(limbs) ==
    [i \in 1..(10 * Len(limbs)) |->
        (limbs[(i - 1) \div 10 + 1] \div Pow2(9 - ((i - 1) % 10))) % 2]

\* the limbs of a sequence of binary digits whose length is a multiple of ten
BitLimbs(bits) ==
    [j \in 1..(Len(bits) \div 10) |->
        bits[10 * j - 9] * 512 + bits[10 * j - 8] * 256 + bits[10 * j - 7] * 128
        + bits[10 * j - 6] * 64 + bits[10 * j - 5] * 32 + bits[10 * j - 4] * 16
        + bits[10 * j - 3] * 8 + bits[10 * j - 2] * 4 + bits[10 * j - 1] * 2
        + bits[10 * j]]

\* bits with zeros put in front, up to length n
PadFront(bits, n) ==
    [i \in 1..n |-> IF i <= n - Len(bits) THEN 0 ELSE bits[i - (n - Len(bits))]]

\* an f64 that is not negative: sig * 2^(-frac), sig of at most 53 binary
\* digits of which the first is 1 (no digit for 0.0)
F64(sig, frac) == [sig |-> sig, frac |-> frac]

\* bits + 1, for bits that are not all ones
Increment(bits) ==
    LET last == CHOOSE p \in DOMAIN bits :
                    bits[p] = 0 /\ \A q \in (p + 1)..Len(bits) : bits[q] = 1
    IN  [i \in DOMAIN bits |-> IF i < last THEN bits[i] ELSE IF i = last THEN 1 ELSE 0]

\* bits * 2^(-frac), plus something below its last digit when sticky,
\* rounded to an f64: to nearest, ties to even
RoundToF64(bits, frac, sticky) ==
    IF \A i \in DOMAIN bits : bits[i] = 0 THEN F64(<<>>, 0)
    ELSE
    LET lead == CHOOSE p \in DOMAIN bits :
                    bits[p] = 1 /\ \A q \in 1..(p - 1) : bits[q] = 0
        n == Len(bits) - lead + 1
    IN  IF n <= 53 THEN F64(SubSeq(bits, lead, Len(bits)), frac)
        ELSE LET keep == SubSeq(bits, lead, lead + 52)
                 rest == sticky \/ \E q \in (lead + 54)..Len(bits) : bits[q] = 1
                 up == bits[lead + 53] = 1 /\ (rest \/ keep[53] = 1)
             IN  IF ~up THEN F64(keep, frac - (n - 53))
                 ELSE IF \A i \in DOMAIN keep : keep[i] = 1
                      THEN F64([i \in 1..53 |-> IF i = 1 THEN 1 ELSE 0],
                               frac - (n - 53) - 1)
                      ELSE F64(Increment(keep), frac - (n - 53))

\* the next k limbs of r / d after the binary point, r < d, and the
\* remainder that is left
RECURSIVE Quotient(_, _, _)
Quotient(r, d, k) ==
    IF k = 0 THEN [limbs |-> <<>>, r |-> r]
    ELSE LET q == Quotient((r * 1024) % d, d, k - 1)
         IN  [limbs |-> <<(r * 1024) \div d>> \o q.limbs, r |-> q.r]

\* a as f64 / d as f64, for a below 2^31 and d below 2^21
F64Div(a, d) ==
    LET whole == a \div d
        q == Quotient(a % d, d, 8)
        limbs == << whole \div 1073741824, (whole \div 1048576) % 1024,
                    (whole \div 1024) % 1024, whole % 1024 >> \o q.limbs
    IN  RoundToF64(LimbBits(limbs), 80, q.r # 0)

\* limbs[1..k] * m + carry as limbs, for m below 2^20
RECURSIVE Times(_, _, _, _)
Times(limbs, m, k, carry) ==
    IF k = 0 THEN <<carry \div 1024, carry % 1024>>
    ELSE Append(Times(limbs, m, k - 1, (limbs[k] * m + carry) \div 1024),
                (limbs[k] * m + carry) % 1024)

\* f * (m as f64)
F64Mul(f, m) ==
    LET limbs == BitLimbs(PadFront(f.sig, 60))
    IN  RoundToF64(LimbBits(Times(limbs, m, Len(limbs), 0)), f.frac, FALSE)

\* f as i64, for f below 2^31: the fraction is cut off
F64AsInt(f) ==
    IF Len(f.sig) <= f.frac THEN 0
    ELSE LET l == BitLimbs(PadFront(SubSeq(f.sig, 1, Len(f.sig) - f.frac), 40))
         IN  ((l[1] * 1024 + l[2]) * 1024 + l[3]) * 1024 + l[4]

(***************************************************************************)
(* Database::insert_sectrogram_for_song: the rows it sends.                *)
(***************************************************************************)
\* (offset as f64 * 1.0 / samplerate as f64 * 1000.0) as i64
TimeMs(offset, samplerate_hz) ==
    F64AsInt(F64Mul(F64Div(offset, samplerate_hz), 1000))

\* let fft_offset = fft_size - fft_overlap
FftOffset(fft_size, fft_overlap) == fft_size - fft_overlap

StartOffsetFromOverlap(idx, fft_size, fft_overlap) == fft_overlap * idx

\* let start_offset = fft_offset * index

StartOffset(idx, fft_size, fft_overlap) ==
    FftOffset(fft_size, fft_overlap) * idx

EndOffsetWithoutSize(idx, fft_size, fft_overlap) ==
    FftOffset(fft_size, fft_overlap) * idx

\* let end_offset = fft_offset * index + fft_size

EndOffset(idx, fft_size, fft_overlap) ==
    FftOffset(fft_size, fft_overlap) * idx + fft_size

\* "{song_id}|{index}|{segment}|{start_time_ms}|{end_time_ms}\n"
CopyRow(song_id, idx, segment, start_time_ms, end_time_ms) ==
    [song_id |-> song_id, segment_index |-> idx, vec |-> segment,
     start_ts_ms |-> start_time_ms, end_ts_ms |-> end_time_ms]

CopyRowsFromOne(song_id, spect, samplerate_hz, fft_size, fft_overlap) ==
    [k \in 1..Len(spect) |->
        CopyRow(song_id, k, spect[k],
                TimeMs(StartOffset(k, fft_size, fft_overlap), samplerate_hz),
                TimeMs(EndOffset(k, fft_size, fft_overlap), samplerate_hz))]

\* for (index, segment) in spectrogram.into_iter().enumerate(): the rows in
\* the order they are sent

CopyRows(song_id, spect, samplerate_hz, fft_size, fft_overlap) ==
    [k \in 1..Len(spect) |->
        CopyRow(song_id, k - 1, spect[k],
                TimeMs(StartOffset(k - 1, fft_size, fft_overlap), samplerate_hz),
                TimeMs(EndOffset(k - 1, fft_size, fft_overlap), samplerate_hz))]

CopyFailedKeepsRows(sent) == Range(sent)

\* the rows a COPY that did not finish leaves in the table: the statement
\* is aborted as a whole

CopyFailed(sent) == {}

\* the rows copy_in.finish() adds to the table
CopyFinished(sent) == Range(sent)

(***************************************************************************)
(* Database::find_similar_to                                               *)
(*   select song_id, segment_index, vec <-> $1 from segments               *)
(*   where vec <-> $1 < $2 order by vec <-> $1 limit $3                    *)
(***************************************************************************)
WithinInclusive(d2, thresh) == thresh >= 0 /\ d2 <= thresh * thresh

\* the where clause: the distance (given squared) is strictly below thresh

Within(d2, thresh) == thresh > 0 /\ d2 < thresh * thresh

Matching(vector, thresh) ==
    {s \in segments : Within(Dist2(s.vec, vector), thresh)}

\* order by: ascending distance, rows at equal distance in any order
OrderedByDistance(rows, vector) ==
    {o \in Orderings(rows) :
        \A j, k \in DOMAIN o :
            j < k => Dist2(o[j].vec, vector) <= Dist2(o[k].vec, vector)}

\* the result lists the store may return: (song_id, segment_index, distance)
FindSimilarTo(vector, thresh, limit) ==
    {[k \in 1..Min(limit, Len(o)) |->
        <<o[k].song_id, o[k].segment_index, Dist2(o[k].vec, vector)>>] :
     o \in OrderedByDistance(Matching(vector, thresh), vector)}

(***************************************************************************)
(* discover_song: the receive loop's body, and the ranking.                *)
(***************************************************************************)
EmptyMap == [x \in {} |-> 0]

AddOverwrite(h, key, n) ==
    [x \in DOMAIN h \cup {key} |-> IF x = key THEN n ELSE h[x]]

AddIfAbsent(h, key, n) ==
    [x \in DOMAIN h \cup {key} |-> IF x \in DOMAIN h THEN h[x] ELSE n]

\* if !hashmap.contains_key(&song_id) { hashmap.insert(song_id, 0) }
\* *hashmap.get_mut(&song_id).unwrap() += n

AddTo(h, key, n) ==
    [x \in DOMAIN h \cup {key} |->
        IF x = key THEN (IF key \in DOMAIN h THEN h[key] ELSE 0) + n ELSE h[x]]

\* for (index, (song_id, _, _)) in result.into_iter().enumerate(), from
\* position k on (index = k - 1)
RECURSIVE AccumulateFrom(_, _, _)
AccumulateFrom(h, rows, k) ==
    IF k > Len(rows) THEN h
    ELSE AccumulateFrom(AddTo(h, rows[k][1], Len(rows) - (k - 1)), rows, k + 1)

Accumulate(h, rows) == AccumulateFrom(h, rows, 1)

\* sort_by_key(|(_, v)| *v): a stable sort, ascending by score
RECURSIVE InsertByKey(_, _)
InsertByKey(sorted, x) ==
    IF sorted = <<>> THEN <<x>>
    ELSE IF sorted[Len(sorted)][2] <= x[2] THEN Append(sorted, x)
    ELSE Append(InsertByKey(SubSeq(sorted, 1, Len(sorted) - 1), x),
                sorted[Len(sorted)])

RECURSIVE SortByKey(_)
SortByKey(s) ==
    IF s = <<>> THEN <<>>
    ELSE InsertByKey(SortByKey(SubSeq(s, 1, Len(s) - 1)), s[Len(s)])

\* top.sort_by_key(..); top.reverse()

Ranked(order) == Reverse(SortByKey(order))

\* hashmap.into_iter().collect(): the pairs in the map's iteration order
IterationOrders(h) == Orderings({<<id, h[id]>> : id \in DOMAIN h})


(***************************************************************************)
(* The semaphore and a task's drop glue, shared by both commands.          *)
(***************************************************************************)
Tasks == DOMAIN pc

\* a task that has been spawned and has not ended
Live(t) == pc[t] \notin {"idle", "done", "panicked", "cancelled"}

AcquireUnchecked(t) ==
    /\ semaphore' = semaphore - 1
    /\ guard' = [guard EXCEPT ![t] = TRUE]

\* semaphore.acquire().await: waits for a free permit and takes it

AcquirePermit(t) ==
    /\ semaphore > 0
    /\ semaphore' = semaphore - 1
    /\ guard' = [guard EXCEPT ![t] = TRUE]

DropGuardOnReturnOnly(t) ==
    /\ semaphore' = IF guard[t] /\ pc[t] = "exit" THEN semaphore + 1 ELSE semaphore
    /\ guard' = [guard EXCEPT ![t] = guard[t] /\ pc[t] # "exit"]

\* _guard is dropped as the task's body is left, by return or by unwinding

DropGuard(t) ==
    /\ semaphore' = IF guard[t] THEN semaphore + 1 ELSE semaphore
    /\ guard' = [guard EXCEPT ![t] = FALSE]

(***************************************************************************)
(* discover_song: the query tasks (lines 324-334).                         *)
(***************************************************************************)
\* the task's clone of the sender is dropped with the task's body, whether
\* the body returned or panicked
DropSenderOnReturnOnly(t) ==
    senders' = IF pc[t] = "exit" THEN senders - 1 ELSE senders

DropSender(t) == senders' = senders - 1

DiscoverAcquire(t) ==
    /\ command = "discover"
    /\ pc[t] = "acquire"
    /\ AcquirePermit(t)
    /\ pc' = [pc EXCEPT ![t] = "query"]
    /\ UNCHANGED <<gvars, uvars, command, max_concurrency, store, bvars, mainpc, index, dvars>>

\* db.find_similar_to(sample, max_distance, results_per_query).await.expect(..)
DiscoverQuery(t) ==
    /\ command = "discover"
    /\ pc[t] = "query"
    /\ \/ \E rows \in FindSimilarTo(spectrogram[t], max_distance, results_per_query) :
            /\ result' = [result EXCEPT ![t] = rows]
            /\ pc' = [pc EXCEPT ![t] = "send"]
       \/ /\ pc' = [pc EXCEPT ![t] = "unwind"]
          /\ UNCHANGED result
    /\ UNCHANGED <<gvars, uvars, command, max_concurrency, store, bvars, semaphore, mainpc, index, guard,
                   spectrogram, max_distance, results_per_query, n_matches,
                   senders, channel, received, hashmap, top, entries>>

\* send.send(result)
DiscoverSend(t) ==
    /\ command = "discover"
    /\ pc[t] = "send"
    /\ channel' = Append(channel, [from |-> t, rows |-> result[t]])
    /\ pc' = [pc EXCEPT ![t] = "exit"]
    /\ UNCHANGED <<gvars, uvars, command, max_concurrency, store, bvars, semaphore, mainpc, index, guard,
                   spectrogram, max_distance, results_per_query, n_matches,
                   senders, result, received, hashmap, top, entries>>

\* the task ends: _guard and the task's sender clone are dropped
DiscoverExit(t) ==
    /\ command = "discover"
    /\ pc[t] \in {"exit", "unwind"}
    /\ DropGuard(t)
    /\ DropSender(t)
    /\ pc' = [pc EXCEPT ![t] = IF pc[t] = "exit" THEN "done" ELSE "panicked"]
    /\ UNCHANGED <<gvars, uvars, command, max_concurrency, store, bvars, mainpc, index,
                   spectrogram, max_distance, results_per_query, n_matches,
                   channel, result, received, hashmap, top, entries>>

(***************************************************************************)
(* discover_song: the command's own task (lines 312-377).                  *)
(***************************************************************************)
\* for sample in spectrogram { send.clone(); tokio::task::spawn(..) }
DiscoverSpawn ==
    /\ command = "discover"
    /\ mainpc = "spawn"
    /\ index < Len(spectrogram)
    /\ index' = index + 1
    /\ senders' = senders + 1
    /\ pc' = [pc EXCEPT ![index + 1] = "acquire"]
    /\ UNCHANGED <<gvars, uvars, command, max_concurrency, store, bvars, semaphore, mainpc, guard,
                   spectrogram, max_distance, results_per_query, n_matches,
                   channel, result, received, hashmap, top, entries>>

\* drop(send), once the loop is over
DiscoverDropSend ==
    /\ command = "discover"
    /\ mainpc = "spawn"
    /\ index = Len(spectrogram)
    /\ senders' = senders - 1
    /\ mainpc' = "recv"
    /\ UNCHANGED <<gvars, uvars, command, max_concurrency, store, bvars, semaphore, index, pc, guard,
                   spectrogram, max_distance, results_per_query, n_matches,
                   channel, result, received, hashmap, top, entries>>

\* recv.recv().await returns Some(result): the loop's body
DiscoverRecv ==
    /\ command = "discover"
    /\ mainpc = "recv"
    /\ channel # <<>>
    /\ hashmap' = Accumulate(hashmap, Head(channel).rows)
    /\ received' = Append(received, Head(channel).from)
    /\ channel' = Tail(channel)
    /\ UNCHANGED <<gvars, uvars, command, max_concurrency, store, bvars, semaphore, mainpc, index, pc,
                   guard, spectrogram, max_distance, results_per_query, n_matches,
                   senders, result, top, entries>>

\* recv.recv().await returns None: the channel is empty and every sender is dropped
DiscoverRecvNone ==
    /\ command = "discover"
    /\ mainpc = "recv"
    /\ channel = <<>>
    /\ senders = 0
    /\ mainpc' = "sort"
    /\ UNCHANGED <<gvars, uvars, command, max_concurrency, store, bvars, semaphore, index, pc, guard, dvars>>

\* top = hashmap.into_iter().collect(); top.sort_by_key(..); top.reverse()
DiscoverSort ==
    /\ command = "discover"
    /\ mainpc = "sort"
    /\ \E order \in IterationOrders(hashmap) : top' = Ranked(order)
    /\ mainpc' = "get_singers"
    /\ UNCHANGED <<gvars, uvars, command, max_concurrency, store, bvars, semaphore, index, pc, guard,
                   spectrogram, max_distance, results_per_query, n_matches,
                   senders, channel, result, received, hashmap, entries>>

\* db.get_singers().await.expect(..)
DiscoverGetSingers ==
    /\ command = "discover"
    /\ mainpc = "get_singers"
    /\ \/ mainpc' = "collect"
       \/ mainpc' = "panicked"
    /\ UNCHANGED <<gvars, uvars, command, max_concurrency, store, bvars, semaphore, index, pc, guard, dvars>>

\* for (song_id, score) in &top[..n_matches] { db.get_song(..) .. entries.push(..) }
\* the slice panics when n_matches > top.len(); n_matches is first read here,
\* and this is where the model draws it
DiscoverCollect ==
    /\ command = "discover"
    /\ mainpc = "collect"
    /\ \E n \in 0..MaxMatches :
        /\ n_matches' = n
        /\ \/ /\ n <= Len(top)
              /\ entries' = SubSeq(top, 1, n)
              /\ mainpc' = "done"
           \/ /\ n > Len(top)
              /\ mainpc' = "panicked"
              /\ UNCHANGED entries
           \/ /\ n <= Len(top)
              /\ \E k \in 1..n : entries' = SubSeq(top, 1, k - 1)
              /\ mainpc' = "panicked"
    /\ UNCHANGED <<gvars, uvars, command, max_concurrency, store, bvars, semaphore, index, pc, guard,
                   spectrogram, max_distance, results_per_query,
                   senders, channel, result, received, hashmap, top>>

(***************************************************************************)
(* The state discover_song starts its fan-out from: the query's            *)
(* spectrogram is generated and the store is connected (lines 305-316).    *)
(***************************************************************************)
\* the spectrograms the query file may decode to
Spectrograms ==
    UNION {[1..n -> {<<0, 0>>, <<0, 1>>}] : n \in 0..MaxFrames}

\* the stores discovery runs against: each is a list of ingested spectrograms
Libraries ==
    { <<>>,
      << << <<0, 0>>, <<0, 1>> >>, << <<0, 0>>, <<1, 1>> >> >> }

SongsOf(library) == [id \in 1..Len(library) |-> SongRow(id)]

SegmentsOf(library) ==
    UNION {SegmentRows(id, library[id]) : id \in 1..Len(library)}

DiscoverInit ==
    /\ command = "discover"
    /\ max_concurrency \in 0..MaxConcurrency
    /\ \E library \in Libraries :
        /\ songs = SongsOf(library)
        /\ segments = SegmentsOf(library)
    /\ semaphore = max_concurrency
    /\ mainpc = "spawn"
    /\ index = 0
    /\ spectrogram \in Spectrograms
    /\ pc = [t \in 1..Len(spectrogram) |-> "idle"]
    /\ guard = [t \in 1..Len(spectrogram) |-> FALSE]
    /\ max_distance \in Distances
    /\ results_per_query \in 0..MaxResultsPer
    /\ n_matches = 0
    /\ senders = 1
    /\ channel = <<>>
    /\ result = [t \in 1..Len(spectrogram) |-> <<>>]
    /\ received = <<>>
    /\ hashmap = EmptyMap
    /\ top = <<>>
    /\ entries = <<>>
    /\ directory = <<>>
    /\ run = 1
    /\ handles = <<>>
    /\ ok = 0
    /\ err = 0
    /\ already_saved = [t \in 1..Len(spectrogram) |-> FALSE]
    /\ song_ids = [t \in 1..Len(spectrogram) |-> 0]
    /\ snapshot = [songs |-> <<>>, segments |-> {}]
    /\ NoUpload
    /\ NoGenerator

DiscoverNext ==
    \/ DiscoverSpawn
    \/ DiscoverDropSend
    \/ DiscoverRecv
    \/ DiscoverRecvNone
    \/ DiscoverSort
    \/ DiscoverGetSingers
    \/ DiscoverCollect
    \/ \E t \in Tasks : DiscoverAcquire(t)
    \/ \E t \in Tasks : DiscoverQuery(t)
    \/ \E t \in Tasks : DiscoverSend(t)
    \/ \E t \in Tasks : DiscoverExit(t)


(***************************************************************************)
(* upload_bulk: the directory it walks.  The entry at position k has the   *)
(* canonical path k.  A regular file carries what the external parser      *)
(* prints for it and what handle_file makes of it; neither changes         *)
(* between two runs over the unchanged directory.                          *)
(***************************************************************************)
\* parser: "parsed" (ParseResult::Parsed), "error" (ParseResult::Error) or
\* "garbage" (output that is neither, or a date that does not parse)
File(parser, decodes, spect) ==
    [kind |-> "file", parser |-> parser, decodes |-> decodes, spect |-> spect]

\* kind: "not_file", "iter_error" (read_dir yields Err), "type_error"
\* (file_type() fails) or "canon_error" (canonicalize() fails)
Other(kind) ==
    [kind |-> kind, parser |-> "none", decodes |-> FALSE, spect |-> <<>>]

DirEntries ==
    { File("parsed", TRUE, << <<0, 0>>, <<0, 1>> >>),
      File("parsed", TRUE, <<>>),
      File("parsed", FALSE, <<>>),
      File("error", TRUE, <<>>),
      File("garbage", TRUE, <<>>),
      Other("not_file"), Other("iter_error"),
      Other("type_error"), Other("canon_error") }

Directories == UNION {[1..n -> DirEntries] : n \in 0..MaxEntries}

\* file.path().canonicalize(): task t works on the entry at position t
FullFilePath(t) == t

(***************************************************************************)
(* Database::song_already_saved                                            *)
(*   select 1 from songs where local_path = $1                             *)
(***************************************************************************)
SongNeverSaved(full_file_path) == FALSE

SongSavedWithSegments(full_file_path) ==
    \E id \in DOMAIN songs :
        /\ songs[id].local_path = full_file_path
        /\ \E s \in segments : s.song_id = id

SongAlreadySaved(full_file_path) ==
    \E id \in DOMAIN songs : songs[id].local_path = full_file_path

\* select count(*) from segments where song_id = $1
CountSegments(id) == Cardinality({s \in segments : s.song_id = id})

(***************************************************************************)
(* upload_bulk: the per-file tasks (lines 226-280).                        *)
(***************************************************************************)
bconst == <<command, max_concurrency, directory, run, snapshot, dvars, uvars,
           gvars>>

BulkAcquire(t) ==
    /\ command = "upload-bulk"
    /\ pc[t] = "acquire"
    /\ AcquirePermit(t)
    /\ pc' = [pc EXCEPT ![t] = "exists"]
    /\ UNCHANGED <<bconst, store, mainpc, index, handles, ok, err, already_saved,
                   song_ids>>

\* db.song_already_saved(&full_file_path).await.expect(..); if already_saved { return }
BulkAlreadySaved(t) ==
    /\ command = "upload-bulk"
    /\ pc[t] = "exists"
    /\ \/ /\ already_saved' =
                [already_saved EXCEPT ![t] = SongAlreadySaved(FullFilePath(t))]
          /\ pc' = [pc EXCEPT ![t] = IF already_saved'[t] THEN "exit" ELSE "parse"]
       \/ /\ pc' = [pc EXCEPT ![t] = "unwind"]
          /\ UNCHANGED already_saved
    /\ UNCHANGED <<bconst, store, semaphore, mainpc, index, guard, handles, ok, err,
                   song_ids>>

\* sh {shell_script} {file_name}, serde_json::from_slice, the date
BulkParse(t) ==
    /\ command = "upload-bulk"
    /\ pc[t] = "parse"
    /\ \/ /\ directory[t].parser = "parsed"
          /\ pc' = [pc EXCEPT ![t] = "decode"]
       \/ /\ directory[t].parser = "error"
          /\ pc' = [pc EXCEPT ![t] = "exit"]
       \/ /\ directory[t].parser = "garbage"
          /\ pc' = [pc EXCEPT ![t] = "unwind"]
       \/ pc' = [pc EXCEPT ![t] = "unwind"]
    /\ UNCHANGED <<bconst, store, semaphore, mainpc, index, guard, handles, ok, err,
                   already_saved, song_ids>>

\* handle_file(&file.path(), SPECTROGRAM_CONFIG)
BulkDecode(t) ==
    /\ command = "upload-bulk"
    /\ pc[t] = "decode"
    /\ pc' = [pc EXCEPT ![t] = IF directory[t].decodes THEN "insert_song" ELSE "unwind"]
    /\ UNCHANGED <<bconst, store, semaphore, mainpc, index, guard, handles, ok, err,
                   already_saved, song_ids>>

\* insert_new_song: insert into songs(..) values (..) returning id
BulkInsertSong(t) ==
    /\ command = "upload-bulk"
    /\ pc[t] = "insert_song"
    /\ \/ /\ songs' = Append(songs, SongRow(FullFilePath(t)))
          /\ song_ids' = [song_ids EXCEPT ![t] = Len(songs) + 1]
          /\ pc' = [pc EXCEPT ![t] = "count"]
       \/ /\ pc' = [pc EXCEPT ![t] = "unwind"]
          /\ UNCHANGED <<songs, song_ids>>
    /\ UNCHANGED <<bconst, segments, semaphore, mainpc, index, guard, handles, ok,
                   err, already_saved>>

\* insert_sectrogram_for_song: select count(*) ..; if segments > 0 { panic!(..) }
BulkCountSegments(t) ==
    /\ command = "upload-bulk"
    /\ pc[t] = "count"
    /\ \/ pc' = [pc EXCEPT ![t] =
                    IF CountSegments(song_ids[t]) > 0 THEN "unwind" ELSE "copy"]
       \/ pc' = [pc EXCEPT ![t] = "unwind"]
    /\ UNCHANGED <<bconst, store, semaphore, mainpc, index, guard, handles, ok, err,
                   already_saved, song_ids>>

\* insert_sectrogram_for_song: copy segments(..) from stdin, every row, finish()
BulkCopy(t) ==
    /\ command = "upload-bulk"
    /\ pc[t] = "copy"
    /\ \/ /\ segments' = segments \cup SegmentRows(song_ids[t], directory[t].spect)
          /\ pc' = [pc EXCEPT ![t] = "exit"]
       \/ /\ pc' = [pc EXCEPT ![t] = "unwind"]
          /\ UNCHANGED segments
    /\ UNCHANGED <<bconst, songs, semaphore, mainpc, index, guard, handles, ok, err,
                   already_saved, song_ids>>

\* the task ends, by return or by a panic: _guard is dropped
BulkExit(t) ==
    /\ command = "upload-bulk"
    /\ pc[t] \in {"exit", "unwind"}
    /\ DropGuard(t)
    /\ pc' = [pc EXCEPT ![t] = IF pc[t] = "exit" THEN "done" ELSE "panicked"]
    /\ UNCHANGED <<bconst, store, mainpc, index, handles, ok, err, already_saved,
                   song_ids>>

(***************************************************************************)
(* upload_bulk: the command's own task (lines 197-291).                    *)
(***************************************************************************)
\* Err(error) => continue, and !is_file() => continue
BulkSkip ==
    /\ command = "upload-bulk"
    /\ mainpc = "iterate"
    /\ index < Len(directory)
    /\ directory[index + 1].kind \in {"iter_error", "not_file"}
    /\ index' = index + 1
    /\ UNCHANGED <<bconst, store, semaphore, mainpc, pc, guard, handles, ok, err,
                   already_saved, song_ids>>

\* tokio::task::spawn(..); handles.push(task)
BulkSpawn ==
    /\ command = "upload-bulk"
    /\ mainpc = "iterate"
    /\ index < Len(directory)
    /\ directory[index + 1].kind = "file"
    /\ index' = index + 1
    /\ pc' = [pc EXCEPT ![index + 1] = "acquire"]
    /\ handles' = Append(handles, index + 1)
    /\ UNCHANGED <<bconst, store, semaphore, mainpc, guard, ok, err, already_saved,
                   song_ids>>

\* file_type().expect(..) or canonicalize().expect(..) panics in upload_bulk
\* itself: the runtime shuts down and drops every task that has not ended
BulkPanic ==
    /\ command = "upload-bulk"
    /\ mainpc = "iterate"
    /\ index < Len(directory)
    /\ directory[index + 1].kind \in {"type_error", "canon_error"}
    /\ mainpc' = "panicked"
    /\ pc' = [t \in Tasks |-> IF Live(t) THEN "cancelled" ELSE pc[t]]
    /\ semaphore' = semaphore + Cardinality({t \in Tasks : guard[t]})
    /\ guard' = [t \in Tasks |-> FALSE]
    /\ UNCHANGED <<bconst, store, index, handles, ok, err, already_saved, song_ids>>

\* join_all(handles).await, and the two counts
BulkJoin ==
    /\ command = "upload-bulk"
    /\ mainpc = "iterate"
    /\ index = Len(directory)
    /\ \A t \in Range(handles) : pc[t] \in {"done", "panicked"}
    /\ ok' = Cardinality({t \in Range(handles) : pc[t] = "done"})
    /\ err' = Cardinality({t \in Range(handles) : pc[t] = "panicked"})
    /\ mainpc' = "done"
    /\ UNCHANGED <<bconst, store, semaphore, index, pc, guard, handles,
                   already_saved, song_ids>>

\* the command is run a second time over the same directory and the same store
BulkRerun ==
    /\ command = "upload-bulk"
    /\ mainpc \in {"done", "panicked"}
    /\ run = 1
    /\ run' = run + 1
    /\ snapshot' = [songs |-> songs, segments |-> segments]
    /\ mainpc' = "iterate"
    /\ index' = 0
    /\ semaphore' = max_concurrency
    /\ pc' = [t \in Tasks |-> "idle"]
    /\ guard' = [t \in Tasks |-> FALSE]
    /\ handles' = <<>>
    /\ ok' = 0
    /\ err' = 0
    /\ already_saved' = [t \in Tasks |-> FALSE]
    /\ song_ids' = [t \in Tasks |-> 0]
    /\ UNCHANGED <<command, max_concurrency, directory, dvars, store, uvars, gvars>>

\* upload_bulk has connected to an empty store and starts to read the directory
BulkInit ==
    /\ command = "upload-bulk"
    /\ max_concurrency \in 0..MaxConcurrency
    /\ songs = <<>>
    /\ segments = {}
    /\ semaphore = max_concurrency
    /\ mainpc = "iterate"
    /\ index = 0
    /\ directory \in Directories
    /\ pc = [t \in 1..Len(directory) |-> "idle"]
    /\ guard = [t \in 1..Len(directory) |-> FALSE]
    /\ run = 1
    /\ handles = <<>>
    /\ ok = 0
    /\ err = 0
    /\ already_saved = [t \in 1..Len(directory) |-> FALSE]
    /\ song_ids = [t \in 1..Len(directory) |-> 0]
    /\ snapshot = [songs |-> <<>>, segments |-> {}]
    /\ spectrogram = <<>>
    /\ max_distance = 0
    /\ results_per_query = 0
    /\ n_matches = 0
    /\ senders = 0
    /\ channel = <<>>
    /\ result = [t \in 1..Len(directory) |-> <<>>]
    /\ received = <<>>
    /\ hashmap = EmptyMap
    /\ top = <<>>
    /\ entries = <<>>
    /\ NoUpload
    /\ NoGenerator

BulkNext ==
    \/ BulkSkip
    \/ BulkSpawn
    \/ BulkPanic
    \/ BulkJoin
    \/ BulkRerun
    \/ \E t \in Tasks : BulkAcquire(t)
    \/ \E t \in Tasks : BulkAlreadySaved(t)
    \/ \E t \in Tasks : BulkParse(t)
    \/ \E t \in Tasks : BulkDecode(t)
    \/ \E t \in Tasks : BulkInsertSong(t)
    \/ \E t \in Tasks : BulkCountSegments(t)
    \/ \E t \in Tasks : BulkCopy(t)
    \/ \E t \in Tasks : BulkExit(t)

(***************************************************************************)
(* SpectrogramGenerator::run.  Sample values and magnitudes are not        *)
(* computed: a buffer is kept as its number of samples, a window as the    *)
(* positions of the buffer it spans, and a frame as the window it was      *)
(* computed from and the number of magnitudes taken from the transform.    *)
(***************************************************************************)
\* the slice &samples[start..start + size]
Window(start, size) == [start |-> start, size |-> size]

WindowsPadded(n_samples, size) ==
    [k \in 1..(IF n_samples >= size THEN n_samples - size + 1 ELSE 1) |->
        Window(k - 1, size)]

\* samples.windows(config.fft_len): every contiguous slice of that length,
\* in the order of their first samples

Windows(n_samples, size) ==
    [k \in 1..(IF n_samples >= size THEN n_samples - size + 1 ELSE 0) |->
        Window(k - 1, size)]

StepByOne(seq, step) == seq

\* .step_by(step): the first element and then every step-th

StepBy(seq, step) ==
    [k \in 1..((Len(seq) + step - 1) \div step) |-> seq[(k - 1) * step + 1]]

\* the three maps: scale by the Hann window, transform, and
\* .take(config.fft_len / 2) magnitudes
Frame(window, fft_len) ==
    [window |-> window, len |-> Min(fft_len \div 2, window.size)]

\* run(&self, samples, config)
Run(n_samples, cfg) ==
    LET windows == StepBy(Windows(n_samples, cfg.fft_len),
                          cfg.fft_len - cfg.overlap)
    IN  [k \in DOMAIN windows |-> Frame(windows[k], cfg.fft_len)]

(***************************************************************************)
(* Database::get_song_duration_ms                                          *)
(*   select max(end_ts_ms) from segments where song_id = $1                *)
(* With no row for the song the aggregate is NULL, which does not decode   *)
(* as an i64: the call returns Err.                                        *)
(***************************************************************************)
GetSongDurationMs(song_id) ==
    LET ends == {s.end_ts_ms : s \in {r \in segments : r.song_id = song_id}}
    IN  IF ends = {} THEN [song_id |-> song_id, ok |-> FALSE, ms |-> 0]
        ELSE [song_id |-> song_id, ok |-> TRUE,
              ms |-> CHOOSE m \in ends : \A e \in ends : e <= m]

(***************************************************************************)
(* upload_song (lines 158-190), run from a shell one or more times         *)
(* against the same store.  process_cli calls the two libraries with       *)
(* TARGET_SAMPLERATE_HZ and SPECTROGRAM_CONFIG; run and insert_new_song    *)
(* take any samplerate and configuration, and the model also makes the     *)
(* same calls with others.                                                 *)
(***************************************************************************)
Setting(samplerate_hz, fft_len, overlap) ==
    [samplerate |-> samplerate_hz,
     config |-> [fft_len |-> fft_len, overlap |-> overlap]]

\* the small settings: every overlap below fft_len, at 1 Hz and at 2000 Hz
Settings ==
    { Setting(hz, c[1], c[2]) :
        hz \in {1, 2000},
        c \in {d \in (1..MaxFftLen) \X (0..(MaxFftLen - 1)) : d[2] < d[1]} }

WideSetting == Setting(25, 201, 0)

ProgramSetting ==
    Setting(TARGET_SAMPLERATE_HZ, SPECTROGRAM_CONFIG.fft_len, SPECTROGRAM_CONFIG.overlap)

\* the numbers of samples the resampled first channel may have
SampleCounts ==
    IF config.fft_len <= MaxFftLen THEN 0..MaxSamples
    ELSE IF config = SPECTROGRAM_CONFIG THEN {90000}
    ELSE {config.fft_len - 1, config.fft_len, 2 * config.fft_len}

\* the path arguments: the same file, relative to /music and absolute
Paths == {"a.flac", "/music/a.flac"}

\* std::fs::canonicalize, with /music the working directory
Canonicalize(path) == "/music/a.flac"

uconst == <<command, max_concurrency, semaphore, index, pc, guard, max_distance,
            results_per_query, n_matches, senders, channel, result, received,
            hashmap, top, entries, bvars, samplerate, config, gvars>>

\* main: Commands::Upload => upload_song(..); Database::connect
UploadSong ==
    /\ command = "upload"
    /\ mainpc \in {"start", "done", "panicked"}
    /\ uploads < MaxUploads
    /\ uploads' = uploads + 1
    /\ file' \in Paths
    /\ samples' = 0
    /\ spectrogram' = <<>>
    /\ new_song' = 0
    /\ copy_in' = <<>>
    /\ duration' = NoDuration
    /\ mainpc' \in {"handle_file", "panicked"}
    /\ UNCHANGED <<uconst, store>>

\* handle_file(&file, SPECTROGRAM_CONFIG): decode, resample, spect_gen.run
UploadHandleFile ==
    /\ command = "upload"
    /\ mainpc = "handle_file"
    /\ \/ /\ samples' \in SampleCounts
          /\ spectrogram' = Run(samples', config)
          /\ mainpc' = "insert_song"
       \/ /\ mainpc' = "panicked"
          /\ UNCHANGED <<samples, spectrogram>>
    /\ UNCHANGED <<uconst, store, uploads, file, new_song, copy_in, duration>>

\* persist_to_db, insert_new_song: insert into songs(..) values (..) returning id
UploadInsertSong ==
    /\ command = "upload"
    /\ mainpc = "insert_song"
    /\ \/ /\ songs' = Append(songs, SongRow(file))
          /\ new_song' = Len(songs) + 1
          /\ mainpc' = "count"
       \/ /\ mainpc' = "panicked"
          /\ UNCHANGED <<songs, new_song>>
    /\ UNCHANGED <<uconst, segments, spectrogram, uploads, file, samples, copy_in,
                   duration>>

\* insert_sectrogram_for_song: select count(*) ..; if segments > 0 { panic!(..) }
UploadCountSegments ==
    /\ command = "upload"
    /\ mainpc = "count"
    /\ \/ mainpc' = IF CountSegments(new_song) > 0 THEN "panicked" ELSE "copy"
       \/ mainpc' = "panicked"
    /\ UNCHANGED <<uconst, store, spectrogram, uploads, file, samples, new_song,
                   copy_in, duration>>

\* insert_sectrogram_for_song: pool.acquire(), copy_in_raw(..) and the loop
\* of copy_in.send(..).  An error after some of the rows returns from the
\* function, and copy_in is dropped with the rows that were sent.
UploadCopy ==
    /\ command = "upload"
    /\ mainpc = "copy"
    /\ LET rows == CopyRows(new_song, spectrogram, samplerate, config.fft_len,
                            config.overlap)
       IN  \/ /\ copy_in' = rows
              /\ mainpc' = "finish"
              /\ UNCHANGED segments
           \/ \E sent \in 0..(Len(rows) - 1) :
                /\ copy_in' = <<>>
                /\ segments' = segments \cup CopyFailed(SubSeq(rows, 1, sent))
                /\ mainpc' = "panicked"
    /\ UNCHANGED <<uconst, songs, spectrogram, uploads, file, samples, new_song,
                   duration>>

\* insert_sectrogram_for_song: copy_in.finish(), which consumes copy_in
UploadFinish ==
    /\ command = "upload"
    /\ mainpc = "finish"
    /\ \/ /\ segments' = segments \cup CopyFinished(copy_in)
          /\ mainpc' = "done"
       \/ /\ segments' = segments \cup CopyFailed(copy_in)
          /\ mainpc' = "panicked"
    /\ copy_in' = <<>>
    /\ UNCHANGED <<uconst, songs, spectrogram, uploads, file, samples, new_song,
                   duration>>

\* insert_sectrogram_for_song is entered once more for the song that was
\* just inserted, with the same spectrogram
UploadInsertAgain ==
    /\ command = "upload"
    /\ mainpc = "done"
    /\ new_song # 0
    /\ duration' = NoDuration
    /\ mainpc' = "count"
    /\ UNCHANGED <<uconst, store, spectrogram, uploads, file, samples, new_song,
                   copy_in>>

\* get_song_duration_ms(song_id) is asked of the store between two commands
UploadDuration ==
    /\ command = "upload"
    /\ mainpc \in {"done", "panicked"}
    /\ \E song_id \in DOMAIN songs : duration' = GetSongDurationMs(song_id)
    /\ UNCHANGED <<uconst, store, mainpc, spectrogram, uploads, file, samples,
                   new_song, copy_in>>

\* the store is connected and empty, and no command has run
UploadInit ==
    /\ command = "upload"
    /\ max_concurrency = 0
    /\ songs = <<>>
    /\ segments = {}
    /\ semaphore = 0
    /\ mainpc = "start"
    /\ index = 0
    /\ pc = <<>>
    /\ guard = <<>>
    /\ directory = <<>>
    /\ run = 1
    /\ handles = <<>>
    /\ ok = 0
    /\ err = 0
    /\ already_saved = <<>>
    /\ song_ids = <<>>
    /\ snapshot = [songs |-> <<>>, segments |-> {}]
    /\ spectrogram = <<>>
    /\ max_distance = 0
    /\ results_per_query = 0
    /\ n_matches = 0
    /\ senders = 0
    /\ channel = <<>>
    /\ result = <<>>
    /\ received = <<>>
    /\ hashmap = EmptyMap
    /\ top = <<>>
    /\ entries = <<>>
    /\ uploads = 0
    /\ file = ""
    /\ \E g \in Settings \cup {WideSetting, ProgramSetting} :
         /\ samplerate = g.samplerate
         /\ config = g.config
    /\ samples = 0
    /\ new_song = 0
    /\ copy_in = <<>>
    /\ duration = NoDuration
    /\ NoGenerator

UploadNext ==
    \/ UploadSong
    \/ UploadHandleFile
    \/ UploadInsertSong
    \/ UploadCountSegments
    \/ UploadCopy
    \/ UploadFinish
    \/ UploadInsertAgain
    \/ UploadDuration

UploadSpec == UploadInit /\ [][UploadNext]_vars

(***************************************************************************)
(* SpectrogramGenerator::run called by several threads on one generator:   *)
(* the clones of a generator share planner and haans through their Arcs.   *)
(* Caller c runs one call with a config of fft_len lens[c].                *)
(***************************************************************************)
\* generate_hanning_window(size): out[i] = 0.5 * (1 - cos(TAU * (i / size))),
\* each value kept as the i and the size it is computed from
GenerateHanningWindow(size) ==
    [k \in 1..size |-> [i |-> k - 1, size |-> size]]

ContainsNoKey(map, key) == FALSE

\* read.contains_key(&size)

ContainsKey(map, key) == key \in DOMAIN map

\* write.insert(size, hann.clone()): an entry with that key is replaced
Insert(map, key, value) ==
    [k \in DOMAIN map \cup {key} |-> IF k = key THEN value ELSE map[k]]

KeepPlannerGuard(holder) == holder

\* drop(planner_guard)

DropPlannerGuard(holder) == 0

KeepRead(held, c) == held

\* drop(read), the read guard of caller c

DropRead(held, c) == held \ {c}

gconst == <<command, max_concurrency, songs, segments, semaphore, mainpc, index,
            guard, dvars, bvars, uvars>>

\* let mut planner_guard = self.planner.lock().unwrap()
RunLockPlanner(c) ==
    /\ command = "run"
    /\ pc[c] = "lock_planner"
    /\ planner = 0
    /\ planner' = c
    /\ pc' = [pc EXCEPT ![c] = "plan"]
    /\ UNCHANGED <<gconst, haans, readers, writer, lens, hann, generated>>

\* let fft = planner_guard.plan_fft_forward(config.fft_len); drop(planner_guard)
RunPlan(c) ==
    /\ command = "run"
    /\ pc[c] = "plan"
    /\ planner' = DropPlannerGuard(planner)
    /\ pc' = [pc EXCEPT ![c] = "read"]
    /\ UNCHANGED <<gconst, haans, readers, writer, lens, hann, generated>>

\* get_hann: let read = self.haans.read().unwrap()
GetHannRead(c) ==
    /\ command = "run"
    /\ pc[c] = "read"
    /\ writer = 0
    /\ readers' = readers \cup {c}
    /\ pc' = [pc EXCEPT ![c] = "contains"]
    /\ UNCHANGED <<gconst, planner, haans, writer, lens, hann, generated>>

\* get_hann: match read.contains_key(&size).  true: the cached window is
\* returned and read is dropped with it; false: drop(read), then generate_hann
GetHannContains(c) ==
    /\ command = "run"
    /\ pc[c] = "contains"
    /\ IF ContainsKey(haans, lens[c])
       THEN /\ hann' = [hann EXCEPT ![c] = haans[lens[c]]]
            /\ readers' = readers \ {c}
            /\ pc' = [pc EXCEPT ![c] = "fft"]
       ELSE /\ readers' = DropRead(readers, c)
            /\ pc' = [pc EXCEPT ![c] = "generate"]
            /\ UNCHANGED hann
    /\ UNCHANGED <<gconst, planner, haans, writer, lens, generated>>

\* generate_hann: let hann = Arc::new(generate_hanning_window(size))
GenerateHann(c) ==
    /\ command = "run"
    /\ pc[c] = "generate"
    /\ hann' = [hann EXCEPT ![c] = GenerateHanningWindow(lens[c])]
    /\ generated' = [generated EXCEPT ![lens[c]] = @ + 1]
    /\ pc' = [pc EXCEPT ![c] = "write"]
    /\ UNCHANGED <<gconst, planner, haans, readers, writer, lens>>

\* generate_hann: let mut write = self.haans.write().unwrap()
GenerateHannWrite(c) ==
    /\ command = "run"
    /\ pc[c] = "write"
    /\ writer = 0
    /\ readers = {}
    /\ writer' = c
    /\ pc' = [pc EXCEPT ![c] = "insert"]
    /\ UNCHANGED <<gconst, planner, haans, readers, lens, hann, generated>>

\* generate_hann: write.insert(size, hann.clone()); hann, and write is dropped
GenerateHannInsert(c) ==
    /\ command = "run"
    /\ pc[c] = "insert"
    /\ haans' = Insert(haans, lens[c], hann[c])
    /\ writer' = 0
    /\ pc' = [pc EXCEPT ![c] = "fft"]
    /\ UNCHANGED <<gconst, planner, readers, lens, hann, generated>>

\* the windows are scaled, transformed with fft.process and collected
RunTransform(c) ==
    /\ command = "run"
    /\ pc[c] = "fft"
    /\ pc' = [pc EXCEPT ![c] = "done"]
    /\ UNCHANGED <<gconst, gvars>>

\* a new generator, and the callers about to enter run
GeneratorInit ==
    /\ command = "run"
    /\ max_concurrency = 0
    /\ songs = <<>>
    /\ segments = {}
    /\ semaphore = 0
    /\ mainpc = "start"
    /\ index = 0
    /\ \E n \in 1..MaxCallers :
         /\ pc = [c \in 1..n |-> "lock_planner"]
         /\ guard = [c \in 1..n |-> FALSE]
         /\ lens \in [1..n -> 1..MaxFftLen]
         /\ hann = [c \in 1..n |-> <<>>]
    /\ directory = <<>>
    /\ run = 1
    /\ handles = <<>>
    /\ ok = 0
    /\ err = 0
    /\ already_saved = <<>>
    /\ song_ids = <<>>
    /\ snapshot = [songs |-> <<>>, segments |-> {}]
    /\ spectrogram = <<>>
    /\ max_distance = 0
    /\ results_per_query = 0
    /\ n_matches = 0
    /\ senders = 0
    /\ channel = <<>>
    /\ result = <<>>
    /\ received = <<>>
    /\ hashmap = EmptyMap
    /\ top = <<>>
    /\ entries = <<>>
    /\ NoUpload
    /\ planner = 0
    /\ haans = <<>>
    /\ readers = {}
    /\ writer = 0
    /\ generated = [n \in 1..MaxFftLen |-> 0]

GeneratorNext ==
    \/ \E c \in Tasks : RunLockPlanner(c)
    \/ \E c \in Tasks : RunPlan(c)
    \/ \E c \in Tasks : GetHannRead(c)
    \/ \E c \in Tasks : GetHannContains(c)
    \/ \E c \in Tasks : GenerateHann(c)
    \/ \E c \in Tasks : GenerateHannWrite(c)
    \/ \E c \in Tasks : GenerateHannInsert(c)
    \/ \E c \in Tasks : RunTransform(c)

GeneratorSpec == GeneratorInit /\ [][GeneratorNext]_vars

\* a thread that can take its next step is scheduled
FairGeneratorSpec == GeneratorSpec /\ WF_vars(GeneratorNext)

(***************************************************************************)
(* main: Command::parse() picks the command.                               *)
(***************************************************************************)
Init == DiscoverInit \/ BulkInit

Next == DiscoverNext \/ BulkNext

Spec == Init /\ [][Next]_vars

\* the runtime keeps running tasks that are ready, and the store answers
FairSpec == Spec /\ WF_vars(Next)

(***************************************************************************)
(* Properties.                                                             *)
(***************************************************************************)
\* the task is between taking its permit and dropping it: the exists-check,
\* parser, decode and insert of upload-bulk, the query and send of discover
InSection(t) ==
    pc[t] \in {"exists", "parse", "decode", "insert_song", "count", "copy",
               "query", "send", "exit", "unwind"}

Finished(t) == pc[t] \in {"done", "panicked", "cancelled"}

\* C1: in upload-bulk and in discover, at most max_concurrency tasks are
\* inside their permit-guarded section at once, and a task that is in it
\* (queries the store, runs the parser, decodes, sends) holds a permit.
C1_BoundedConcurrency ==
    /\ Cardinality({t \in Tasks : InSection(t)}) <= max_concurrency
    /\ \A t \in Tasks : InSection(t) => guard[t]
    /\ semaphore >= 0

\* every permit is in use while another task waits for one
C1_Witness ==
    /\ max_concurrency >= 1
    /\ semaphore = 0
    /\ Cardinality({t \in Tasks : InSection(t)}) = max_concurrency
    /\ \E t \in Tasks : pc[t] = "acquire"
    /\ \E t \in Tasks : pc[t] \in {"decode", "query"}

\* C2: a task gives its permit back on every way out (return after the
\* body, the early returns, a panic): a task that has ended holds none, the
\* permits out and the permits available always add up to max_concurrency,
\* and once every spawned task has ended all max_concurrency permits are
\* available and no task waits for one.
C2_PermitReleased ==
    /\ \A t \in Tasks : guard[t] => Live(t)
    /\ semaphore + Cardinality({t \in Tasks : guard[t]}) = max_concurrency
    /\ (\A t \in Tasks : pc[t] = "idle" \/ Finished(t)) =>
            /\ semaphore = max_concurrency
            /\ \A t \in Tasks : pc[t] # "acquire"

\* a run of upload-bulk ended with one task skipped as already saved, one
\* returned on a parser error and one panicked
C2_Witness ==
    /\ command = "upload-bulk"
    /\ mainpc = "done"
    /\ max_concurrency = 1
    /\ semaphore = max_concurrency
    /\ \E t, u \in Tasks :
        /\ pc[t] = "done" /\ already_saved[t]
        /\ pc[u] = "panicked"

\* discover_song has left its receive loop
LoopOver == mainpc \notin {"spawn", "recv"}

\* C3: in discover_song, for any number of frames and any max_concurrency,
\* the receive loop eventually ends; until every task is spawned the
\* original sender is alive, and when the loop ends no task can still send
\* and every result that was sent has been received.
C3_ReceiveLoopTerminates ==
    /\ [](command = "discover" =>
            /\ mainpc = "spawn" => senders = 1 + Cardinality({t \in Tasks : Live(t)})
            /\ LoopOver =>
                /\ \A t \in Tasks : Finished(t)
                /\ channel = <<>>
                /\ Range(received) = {t \in Tasks : pc[t] = "done"})
    /\ <>(command = "discover" => LoopOver)

\* the weight the list rows gives recording r: n - i for each position i
\* (zero-based) of the list that is a hit of r, n the list's length
RECURSIVE WeightFrom(_, _, _)
WeightFrom(rows, r, k) ==
    IF k > Len(rows) THEN 0
    ELSE (IF rows[k][1] = r THEN Len(rows) - (k - 1) ELSE 0) + WeightFrom(rows, r, k + 1)

\* the same, summed over the first k lists that were received
RECURSIVE DeliveredWeight(_, _)
DeliveredWeight(r, k) ==
    IF k = 0 THEN 0
    ELSE WeightFrom(result[received[k]], r, 1) + DeliveredWeight(r, k - 1)

RECURSIVE DeliveredTriangles(_)
DeliveredTriangles(k) ==
    IF k = 0 THEN 0
    ELSE LET n == Len(result[received[k]])
         IN  (n * (n + 1)) \div 2 + DeliveredTriangles(k - 1)

RECURSIVE MapTotal(_, _)
MapTotal(h, keys) ==
    IF keys = {} THEN 0
    ELSE LET r == CHOOSE x \in keys : TRUE
         IN  h[r] + MapTotal(h, keys \ {r})

RECURSIVE AccumulateTimes(_, _, _)
AccumulateTimes(h, rows, times) ==
    IF times = 0 THEN h ELSE AccumulateTimes(Accumulate(h, rows), rows, times - 1)

\* ten result lists of four hits, of recordings A = 1 and B = 2 in the order
\* [A, A, B, B]
VoteScenario ==
    AccumulateTimes(EmptyMap, << <<1, 0, 0>>, <<1, 1, 1>>, <<2, 0, 2>>, <<2, 1, 3>> >>, 10)

\* C4: the score of a recording is the sum, over the result lists received
\* (length n) and the zero-based positions i of its hits in them, of n - i;
\* a recording that is in no list has no entry; a list of length n adds
\* n(n+1)/2 in total; ten lists [A,A,B,B] score A 70 and B 30.  It holds
\* after every list received, hence when the loop ends.
C4_ScoreIsWeightedSum ==
    command = "discover" =>
        /\ DOMAIN hashmap =
                UNION {{result[received[k]][j][1] : j \in DOMAIN result[received[k]]} :
                       k \in DOMAIN received}
        /\ \A r \in DOMAIN hashmap : hashmap[r] = DeliveredWeight(r, Len(received))
        /\ MapTotal(hashmap, DOMAIN hashmap) = DeliveredTriangles(Len(received))
        /\ DOMAIN VoteScenario = {1, 2}
        /\ VoteScenario[1] = 70
        /\ VoteScenario[2] = 30

\* the loop ended after two lists of two hits each, for two recordings
C4_Witness ==
    /\ command = "discover"
    /\ mainpc = "sort"
    /\ Len(received) = 2
    /\ \A k \in 1..2 : Len(result[received[k]]) = 2
    /\ Cardinality(DOMAIN hashmap) = 2
    /\ \E r \in DOMAIN hashmap : hashmap[r] = 4

\* the score map the result lists of the tasks that sent one give when they
\* are accumulated in the order of the frames
RECURSIVE InFrameOrder(_, _)
InFrameOrder(h, t) ==
    IF t > Len(spectrogram) THEN h
    ELSE InFrameOrder(IF pc[t] = "done" THEN Accumulate(h, result[t]) ELSE h, t + 1)

\* C5: when the loop has ended the score map is the one the same result
\* lists give in the order of the frames, whatever order the tasks
\* completed and sent in; only the receiving task changes the map.
C5_OrderIndependent ==
    /\ (command = "discover" /\ LoopOver) => hashmap = InFrameOrder(EmptyMap, 1)
    /\ (command = "discover" /\ mainpc = "spawn") => hashmap = EmptyMap

\* the second frame's list was received before the first frame's, and the
\* two lists differ
C5_Witness ==
    /\ command = "discover"
    /\ mainpc = "sort"
    /\ received = <<2, 1>>
    /\ result[1] # result[2]
    /\ result[1] # <<>>
    /\ result[2] # <<>>

\* the recordings that received a score
Scored == DOMAIN hashmap

\* C6: when n_matches exceeds the number of recordings that received a
\* score (none at all included), discover_song completes without error and
\* returns exactly the recordings available.
C6_TruncatedToAvailable ==
    (/\ command = "discover"
     /\ mainpc \in {"done", "panicked"}
     /\ n_matches > Cardinality(Scored)) =>
        /\ mainpc = "done"
        /\ {e[1] : e \in Range(entries)} = Scored

\* discover_song has taken, or has tried to take, the top n_matches, and no
\* store call failed
Collected ==
    /\ command = "discover"
    /\ \/ mainpc = "done"
       \/ mainpc = "panicked" /\ n_matches > Len(top)

\* C7: the entries returned are in descending order of score, there are
\* exactly min(n_matches, number of scored recordings) of them, and a scored
\* recording that is not returned scores no more than any that is.
C7_TopMatches ==
    Collected =>
        /\ \A j \in 1..(Len(entries) - 1) : entries[j][2] >= entries[j + 1][2]
        /\ \A j \in DOMAIN entries :
                entries[j][1] \in Scored /\ entries[j][2] = hashmap[entries[j][1]]
        /\ Len(entries) = Min(n_matches, Cardinality(Scored))
        /\ \A r \in Scored \ {e[1] : e \in Range(entries)} :
                \A j \in DOMAIN entries : hashmap[r] <= entries[j][2]

\* the stored segments whose vec equals the frame task t queries with
ExactCopies(t) == {s \in segments : s.vec = spectrogram[t]}

Answered(t) == pc[t] \in {"send", "exit", "done"}

\* C8 as claimed: with max_distance = 0 a query returns the segments equal
\* to the frame (as many as the limit lets through) and none at a distance
\* above 0, so a recording holding an exact copy of a frame is scored.
C8_ExactMatchesAtZero ==
    (command = "discover" /\ max_distance = 0) =>
        /\ \A t \in Tasks : Answered(t) =>
            /\ \A j \in DOMAIN result[t] : result[t][j][3] = 0
            /\ Len(result[t]) = Min(results_per_query, Cardinality(ExactCopies(t)))
        /\ LoopOver =>
            \A t \in Tasks : \A s \in ExactCopies(t) :
                (pc[t] = "done" /\ results_per_query >= Cardinality(ExactCopies(t)))
                    => s.song_id \in Scored

\* C8 as amended: a query returns only segments strictly closer than
\* max_distance; with max_distance = 0 it returns none, not the exact copies
\* either, and no recording is scored.
C8_StrictlyWithin ==
    command = "discover" =>
        /\ \A t \in Tasks : \A j \in DOMAIN result[t] :
                result[t][j][3] < max_distance * max_distance
        /\ max_distance = 0 =>
            /\ \A t \in Tasks : result[t] = <<>>
            /\ hashmap = EmptyMap

\* with max_distance = 0 a query whose frame has an exact copy in the store
\* was answered, and the loop has ended
C8_Witness ==
    /\ command = "discover"
    /\ max_distance = 0
    /\ results_per_query >= 1
    /\ mainpc = "sort"
    /\ \E t \in Tasks : pc[t] = "done" /\ ExactCopies(t) # {}

Failed(t) == pc[t] \in {"unwind", "panicked"}

\* C9: a query task whose store call fails sends nothing and adds to no
\* score; the lists of the tasks that did not fail are all received; and
\* once a query has failed, discover_song still leaves its receive loop.
C9_QueryFailureIsolated ==
    /\ [](command = "discover" =>
            /\ \A t \in Tasks : Failed(t) =>
                /\ t \notin Range(received)
                /\ \A k \in DOMAIN channel : channel[k].from # t
            /\ LoopOver => Range(received) = {t \in Tasks : ~Failed(t)})
    /\ ((command = "discover" /\ \E t \in Tasks : Failed(t)) ~> LoopOver)

\* one query failed, another's list was received and scored, and
\* discover_song returned
C9_Witness ==
    /\ command = "discover"
    /\ mainpc = "done"
    /\ \E t \in Tasks : pc[t] = "panicked"
    /\ received # <<>>
    /\ hashmap # EmptyMap

\* the songs row of the path of task t's file, in the given songs table
RowsOf(table, t) == {id \in DOMAIN table : table[id].local_path = FullFilePath(t)}

\* the first run left a recording for task t's file
SavedBefore(t) == RowsOf(snapshot.songs, t) # {}

\* C10: in the second of two runs of upload-bulk over the unchanged
\* directory, a file the first run inserted is found by song_already_saved
\* and skipped before the parser, the decoder or an insert; its rows are
\* unchanged, no file has two songs rows, and when the first run inserted
\* every regular file the two tables are as the first run left them.
C10_SecondRunSkipsSaved ==
    (command = "upload-bulk" /\ run = 2) =>
        /\ \A t \in Tasks : SavedBefore(t) =>
            /\ pc[t] \notin {"parse", "decode", "insert_song", "count", "copy"}
            /\ pc[t] = "done" => already_saved[t]
            /\ RowsOf(songs, t) = RowsOf(snapshot.songs, t)
            /\ \A id \in RowsOf(songs, t) :
                    {s \in segments : s.song_id = id} =
                    {s \in snapshot.segments : s.song_id = id}
        /\ \A t \in Tasks : Cardinality(RowsOf(songs, t)) <= 1
        /\ (\A t \in Tasks : directory[t].kind = "file" => SavedBefore(t)) =>
                songs = snapshot.songs /\ segments = snapshot.segments

\* the second run over two files, both inserted by the first run, is over:
\* both were skipped and the tables are unchanged
C10_Witness ==
    /\ command = "upload-bulk"
    /\ run = 2
    /\ mainpc = "done"
    /\ Len(directory) = 2
    /\ \A t \in Tasks : already_saved[t] /\ pc[t] = "done"
    /\ ok = 2
    /\ Len(songs) = 2
    /\ segments # {}
    /\ songs = snapshot.songs
    /\ segments = snapshot.segments

\* C11: after any sequence of upload and upload-bulk commands, repeated
\* uploads of one file included, no two songs rows have the same local_path,
\* and the local_path that is stored is the canonical absolute path of the
\* file.
C11_UniqueCanonicalPaths ==
    /\ \A a, b \in DOMAIN songs :
            a # b => songs[a].local_path # songs[b].local_path
    /\ command = "upload" =>
            \A id \in DOMAIN songs :
                songs[id].local_path = Canonicalize(songs[id].local_path)

\* the regular files of the directory
RegularFiles == {t \in DOMAIN directory : directory[t].kind = "file"}

\* C12: a file whose parser reports an error is skipped and is counted
\* neither as ok nor as err: when upload-bulk has run once over n regular
\* files, k of which got a parser error while the others were ingested, it
\* reports ok = n - k and err = 0, and the store holds n - k recordings.
C12_ParserErrorsUncounted ==
    LET failed == {t \in RegularFiles : directory[t].parser = "error"}
    IN  ( /\ command = "upload-bulk"
          /\ run = 1
          /\ mainpc = "done"
          /\ \A t \in RegularFiles :
                /\ pc[t] = "done"
                /\ t \notin failed => song_ids[t] # 0 ) =>
            /\ ok = Cardinality(RegularFiles) - Cardinality(failed)
            /\ err = 0
            /\ Len(songs) = Cardinality(RegularFiles) - Cardinality(failed)

\* C13: a failure in any stage of one file's processing is absorbed by that
\* file alone: upload_bulk itself never panics, no other file's task is cut
\* short, and the counts it reports add up to the number of regular files.
C13_FailureAbsorbed ==
    command = "upload-bulk" =>
        /\ mainpc # "panicked"
        /\ \A t \in Tasks : pc[t] # "cancelled"
        /\ mainpc = "done" => ok + err = Cardinality(RegularFiles)

\* the segments rows of one song
SegmentsOfSong(id) == {s \in segments : s.song_id = id}

\* C14: in every state of the store each song has no segments or one
\* complete sequence of them.  The rows of a song are added in one step and
\* all together, by the finish of a copy for a song that had none: a copy
\* that fails part-way adds nothing.  An insert entered for a song that has
\* segments panics and leaves every segments row as it is.
C14_AllOrNothing ==
    /\ [](\A id \in DOMAIN songs :
            \/ SegmentsOfSong(id) = {}
            \/ {s.segment_index : s \in SegmentsOfSong(id)} =
                    0..(Cardinality(SegmentsOfSong(id)) - 1))
    /\ [][segments' # segments =>
            /\ mainpc = "finish"
            /\ SegmentsOfSong(new_song) = {}
            /\ segments' = segments \cup
                    Range(CopyRows(new_song, spectrogram, samplerate,
                                   config.fft_len, config.overlap))]_vars
    /\ [][(mainpc = "count" /\ SegmentsOfSong(new_song) # {}) =>
            (mainpc' = "panicked" /\ segments' = segments)]_vars

\* an insert for song 2, which has all its two or more segments, has just
\* been rejected, and song 1, whose insert failed, has none
C14_Witness ==
    /\ command = "upload"
    /\ mainpc = "panicked"
    /\ new_song = 2
    /\ Len(spectrogram) >= 2
    /\ Cardinality(SegmentsOfSong(2)) = Len(spectrogram)
    /\ SegmentsOfSong(1) = {}

\* C15: when insert_new_song has returned the id of a song whose spectrogram
\* has K frames, the segment_index values stored for the song are exactly
\* 0..K-1, one row each, and the row with index k holds the k-th frame the
\* generator produced.  The rows are sent in strictly increasing index, and
\* every stored vec has fft_len / 2 values.
C15_DenseOrderedSegments ==
    command = "upload" =>
        /\ (mainpc = "done" /\ new_song # 0) =>
            /\ Cardinality(SegmentsOfSong(new_song)) = Len(spectrogram)
            /\ {s.segment_index : s \in SegmentsOfSong(new_song)} =
                    0..(Len(spectrogram) - 1)
            /\ spectrogram = Run(samples, config)
            /\ \A s \in SegmentsOfSong(new_song) :
                    s.vec = spectrogram[s.segment_index + 1]
        /\ \A a, b \in DOMAIN copy_in :
                a < b => copy_in[a].segment_index < copy_in[b].segment_index
        /\ \A s \in segments : s.vec.len = config.fft_len \div 2

\* a song of two or more frames, each of one value as fft_len is 2,
\* has been inserted
C15_Witness ==
    /\ command = "upload"
    /\ mainpc = "done"
    /\ new_song # 0
    /\ config.fft_len = 2
    /\ Len(spectrogram) >= 2
    /\ Cardinality(SegmentsOfSong(new_song)) = Len(spectrogram)

\* two rows of one song, the second with the next segment_index
Consecutive(a, b) ==
    a.song_id = b.song_id /\ b.segment_index = a.segment_index + 1

\* C16 as stated: for any samplerate >= 1 and any 0 <= overlap < fft_len
\* the stored timestamps are strictly increasing in the segment index, the
\* start and the end alike.
C16_StrictlyIncreasing ==
    \A a, b \in segments :
        (command = "upload" /\ Consecutive(a, b)) =>
            a.start_ts_ms < b.start_ts_ms /\ a.end_ts_ms < b.end_ts_ms

\* C16 amended: the stored timestamps (below 2^31 ms) never decrease with
\* the segment index, and they are strictly increasing when the frames are
\* 2 ms or more apart, that is when (fft_len - overlap) * 1000 is at least
\* 2 * samplerate.
C16_NonDecreasing ==
    \A a, b \in segments :
        (command = "upload" /\ Consecutive(a, b)) =>
            /\ a.start_ts_ms <= b.start_ts_ms
            /\ a.end_ts_ms <= b.end_ts_ms
            /\ (config.fft_len - config.overlap) * 1000 >= 2 * samplerate =>
                    a.start_ts_ms < b.start_ts_ms /\ a.end_ts_ms < b.end_ts_ms

\* a song of two or more frames that are at least 2 ms apart is stored
C16_Witness ==
    /\ command = "upload"
    /\ (config.fft_len - config.overlap) * 1000 >= 2 * samplerate
    /\ \E a, b \in segments : Consecutive(a, b)

\* floor(offset * 1000 / samplerate), in whole numbers
FloorMs(offset, samplerate_hz) == (offset * 1000) \div samplerate_hz

\* C17: every stored segment with index k has
\*   start_ts_ms = floor(k * (fft_len - overlap) * 1000 / samplerate) and
\*   end_ts_ms = floor((k * (fft_len - overlap) + fft_len) * 1000 / samplerate)
\* exactly, for every k, fft_len, overlap < fft_len and samplerate >= 1.
C17_ExactFloor ==
    \A s \in segments :
        command = "upload" =>
            /\ s.start_ts_ms =
                FloorMs(s.segment_index * (config.fft_len - config.overlap),
                        samplerate)
            /\ s.end_ts_ms =
                FloorMs(s.segment_index * (config.fft_len - config.overlap)
                            + config.fft_len, samplerate)

\* C18: when get_song_duration_ms is asked for a song that has K >= 1
\* segments it returns the greatest end_ts_ms among the rows of that song,
\* whatever other songs are stored, and that value is
\* floor(((K - 1) * (fft_len - overlap) + fft_len) * 1000 / samplerate).
C18_DurationRoundTrip ==
    LET rows == SegmentsOfSong(duration.song_id)
    IN  (command = "upload" /\ duration # NoDuration /\ rows # {}) =>
            /\ duration.ok
            /\ \E s \in rows : s.end_ts_ms = duration.ms
            /\ \A s \in rows : s.end_ts_ms <= duration.ms
            /\ duration.ms =
                FloorMs((Cardinality(rows) - 1) * (config.fft_len - config.overlap)
                            + config.fft_len, samplerate)

\* the command runs with the constants of process_cli
ProgramConstants ==
    /\ command = "upload"
    /\ samplerate = TARGET_SAMPLERATE_HZ
    /\ config = SPECTROGRAM_CONFIG

\* C19 as stated: a buffer of 90000 samples at 30000 Hz with fft_len 1280
\* and overlap 320 gives exactly 93 frames, and get_song_duration_ms of the
\* song that was inserted returns 2987.
C19_Duration2987 ==
    (ProgramConstants /\ samples = 90000) =>
        /\ Len(spectrogram) = 93
        /\ (duration.ok /\ duration.song_id = new_song) => duration.ms = 2987

\* C19 amended: the same buffer gives exactly 93 frames, and
\* get_song_duration_ms of the song that was inserted returns 2986.
C19_Duration2986 ==
    (ProgramConstants /\ samples = 90000) =>
        /\ Len(spectrogram) = 93
        /\ (duration.ok /\ duration.song_id = new_song) => duration.ms = 2986

\* the 93 frames of the 90000 samples are stored and the duration of the
\* song has been returned
C19_Witness ==
    /\ ProgramConstants
    /\ samples = 90000
    /\ Cardinality(SegmentsOfSong(new_song)) = 93
    /\ duration.ok
    /\ duration.song_id = new_song

\* C20: for a buffer of M samples and a config with fft_len = L >= 1 and
\* overlap = O < L, run returns F frames, F = floor((M - L) / (L - O)) + 1
\* when M >= L and F = 0 otherwise.  Frame k, counted from 0 in the order
\* returned, is computed from the samples at positions k * (L - O) up to,
\* not including, k * (L - O) + L, all of them inside the buffer, and has
\* L / 2 values: no frame is made of a shorter window at the end.
C20_FrameCount ==
    command = "upload" =>
        LET M == samples
            L == config.fft_len
            O == config.overlap
            F == IF M >= L THEN (M - L) \div (L - O) + 1 ELSE 0
        IN  /\ Len(spectrogram) = F
            /\ \A k \in 0..(F - 1) :
                /\ spectrogram[k + 1].window = Window(k * (L - O), L)
                /\ k * (L - O) + L <= M
                /\ spectrogram[k + 1].len = L \div 2

\* three samples in windows of two without overlap: one frame, and the
\* third sample is left over
C20_Witness ==
    /\ command = "upload"
    /\ mainpc = "insert_song"
    /\ config = [fft_len |-> 2, overlap |-> 0]
    /\ samples = 3
    /\ Len(spectrogram) = 1

\* C21: when the resampled buffer is shorter than one window, the ingest
\* that has completed produced no frame, inserted the songs row, inserted
\* no segments row for it, and returned the id of the new song.
C21_ShortBufferIngests ==
    ( /\ command = "upload"
      /\ mainpc = "done"
      /\ samples < config.fft_len ) =>
        /\ spectrogram = <<>>
        /\ new_song \in DOMAIN songs
        /\ songs[new_song].local_path = file
        /\ SegmentsOfSong(new_song) = {}

\* an ingest of 200 samples with windows of 201 has completed
C21_Witness ==
    /\ command = "upload"
    /\ mainpc = "done"
    /\ config.fft_len = 201
    /\ samples = 200
    /\ new_song = 1
    /\ Len(songs) = 1
    /\ segments = {}

\* the callers whose config has fft_len n
CallersOf(n) == {c \in Tasks : lens[c] = n}

\* C22 as stated: for any interleaving of concurrent calls on one shared
\* generator, generate_hann(N) executes at most once for each length N.
C22_GeneratedAtMostOnce ==
    command = "run" => \A n \in DOMAIN generated : generated[n] <= 1

\* C22 amended: generate_hann(N) executes at most once for each call, and
\* only in a call that found N absent from the cache while it held its
\* read guard; a call that looks when an entry for N is there does not
\* generate it.
C22_GeneratedOncePerMiss ==
    /\ [](command = "run" =>
            \A n \in DOMAIN generated : generated[n] <= Cardinality(CallersOf(n)))
    /\ [][command = "run" =>
            \A c \in Tasks :
                (pc[c] # "generate" /\ pc'[c] = "generate") =>
                    (pc[c] = "contains" /\ lens[c] \notin DOMAIN haans)]_vars
    /\ [][(command = "run" /\ generated' # generated) =>
            \E c \in Tasks :
                /\ pc[c] = "generate"
                /\ pc'[c] = "write"
                /\ generated' = [generated EXCEPT ![lens[c]] = @ + 1]]_vars

\* two calls for one length are over and the window was generated once:
\* the second found it in the cache
C22_Witness ==
    /\ command = "run"
    /\ \E a, b \in Tasks :
        /\ a # b
        /\ lens[a] = lens[b]
        /\ pc[a] = "done"
        /\ pc[b] = "done"
        /\ generated[lens[a]] = 1

\* get_hann has returned to caller c
Returned(c) == pc[c] \in {"fft", "done"}

\* C23: for any interleaving of concurrent calls on one shared generator no
\* call deadlocks: every call ends.  Every call for length N gets a window
\* of length N that is the Hann window of N, whichever of the racing
\* writers wrote last; no entry of the cache has a key other than the
\* length of its window; no entry is ever removed, and once a call for N
\* has returned N is in the cache for every later call to find.
C23_GetHannSafeAndLive ==
    /\ <>(\A c \in Tasks : pc[c] = "done")
    /\ [](\A c \in Tasks :
            Returned(c) =>
                /\ Len(hann[c]) = lens[c]
                /\ hann[c] = GenerateHanningWindow(lens[c])
                /\ lens[c] \in DOMAIN haans)
    /\ [](\A n \in DOMAIN haans :
            Len(haans[n]) = n /\ haans[n] = GenerateHanningWindow(n))
    /\ [][DOMAIN haans \subseteq DOMAIN haans']_vars

\* two callers raced on one absent length: both generated the window, both
\* wrote it and both calls are over
C23_Witness ==
    /\ command = "run"
    /\ \E a, b \in Tasks :
        /\ a # b
        /\ lens[a] = lens[b]
        /\ generated[lens[a]] = 2
        /\ pc[a] = "done"
        /\ pc[b] = "done"
        /\ haans[lens[a]] = hann[a]
        /\ hann[a] = hann[b]

\* C24: the planner mutex is held only while the forward plan is acquired:
\* its holder is at the plan acquisition and holds no guard of the window
\* cache, so no caller holds it while it requests or holds the lock of the
\* cache or while a transform executes.  The calls cannot deadlock on the
\* two locks: as long as a call is not over, some caller can take a step.
C24_PlannerLockScope ==
    command = "run" =>
        /\ planner # 0 =>
            /\ pc[planner] = "plan"
            /\ planner \notin readers
            /\ planner # writer
        /\ \A c \in Tasks :
            pc[c] \in {"read", "contains", "generate", "write", "insert", "fft"} =>
                planner # c
        /\ (\A c \in Tasks : pc[c] = "done") \/ ENABLED GeneratorNext

\* the transforms of three callers are in progress at the same time, and
\* no lock is held
C24_Witness ==
    /\ command = "run"
    /\ Cardinality(Tasks) = 3
    /\ \A c \in Tasks : pc[c] = "fft"
    /\ planner = 0
    /\ readers = {}
    /\ writer = 0

\* the first run left a songs row without segments for the file of task t
LeftWithoutSegments(t) ==
    \E id \in RowsOf(snapshot.songs, t) :
        \A s \in snapshot.segments : s.song_id # id

\* C25: insert_new_song commits the songs row before the segment insert and
\* apart from it.  When the segment insert of task t has failed, by a store
\* error or by the panic on existing segments, the songs row with the path
\* of the file is in the store and has no segments.  In a later run of
\* upload-bulk the exists-check finds that row: the file is skipped before
\* the parser, the decoder or an insert, and the row is as it was, still
\* without segments.
C25_SongRowOutlivesFailedInsert ==
    command = "upload-bulk" =>
        /\ \A t \in Tasks :
            (pc[t] \in {"unwind", "panicked"} /\ song_ids[t] # 0) =>
                /\ song_ids[t] \in RowsOf(songs, t)
                /\ SegmentsOfSong(song_ids[t]) = {}
        /\ run = 2 =>
            \A t \in Tasks :
                LeftWithoutSegments(t) =>
                    /\ pc[t] \notin {"parse", "decode", "insert_song", "count", "copy"}
                    /\ song_ids[t] = 0
                    /\ pc[t] = "done" => already_saved[t]
                    /\ RowsOf(songs, t) = RowsOf(snapshot.songs, t)
                    /\ \E id \in RowsOf(songs, t) : SegmentsOfSong(id) = {}

\* the segment insert of a file with frames failed in the first run, and
\* the second run has skipped the file: its songs row has no segments
C25_Witness ==
    /\ command = "upload-bulk"
    /\ run = 2
    /\ mainpc = "done"
    /\ \E t \in Tasks :
        /\ directory[t].kind = "file"
        /\ directory[t].spect # <<>>
        /\ LeftWithoutSegments(t)
        /\ pc[t] = "done"
        /\ already_saved[t]
        /\ \A id \in RowsOf(songs, t) : SegmentsOfSong(id) = {}

====
